---- MODULE Spec2Model ----
(***************************************************************************)
(* Schema-to-TypeScript translator of the alova devtools                   *)
(* (src/unnamed/part_001): the comment builder, the recursive              *)
(* parseSchema / parseObject / parseArray / parseEnum engine,              *)
(* convertToType and the reference collector jsonSchema2TsStr.             *)
(*                                                                         *)
(* Text is a sequence of tokens (strings).  The newline is always the      *)
(* token NL of its own, so that split('\n') and join('\n') are computed    *)
(* as the code computes them; the markers "[title]", "[deprecated]",       *)
(* "[required]" and the pattern head "type Ts = " are single tokens.       *)
(***************************************************************************)
EXTENDS Integers, Sequences, FiniteSets, TLC

VARIABLES
  \* comment(): one builder object
  cType, cStr, cIdx, cAdded, cEnded, cOut,
  \* one parseSchema call: its arguments and what it returned / observed
  eSchema, eConfig, ePc, eResult,
  \* one convertToType call
  fSchema, fConfig, fPc, fFormatted, fResult,
  \* one top-level jsonSchema2TsStr request
  doc, opts, rootName, stack, awaiting, memo, sinkLog, started, nextId,
  rejected, topResult

commentVars == <<cType, cStr, cIdx, cAdded, cEnded, cOut>>
engineVars == <<eSchema, eConfig, ePc, eResult>>
formatVars == <<fSchema, fConfig, fPc, fFormatted, fResult>>
collectorVars == <<doc, opts, rootName, stack, awaiting, memo, sinkLog, started,
                   nextId, rejected, topResult>>
vars == <<commentVars, engineVars, formatVars, collectorVars>>

-----------------------------------------------------------------------------
(* Bounds *)

\* add() calls on one comment builder
MaxAdds == 3
\* elements of a tuple-form items list
MaxTuple == 3
\* nested reference resolutions of one deep parseSchema traversal before
\* the JavaScript call stack is exhausted
MaxInline == 2
\* nested jsonSchema2TsStr calls before the JavaScript call stack is exhausted
MaxStack == 4

-----------------------------------------------------------------------------
(* Text: String.prototype.split / join / trim / startsWith on tokens *)

NL == "\n"

RECURSIVE Split(_, _)
\* text.split(sep): the pieces between the occurrences of sep; '' gives ['']
Split(text, sep) ==
  IF \A i \in 1..Len(text) : text[i] # sep
    THEN <<text>>
    ELSE LET k == CHOOSE i \in 1..Len(text) :
                    text[i] = sep /\ \A j \in 1..(i - 1) : text[j] # sep
         IN <<SubSeq(text, 1, k - 1)>> \o Split(SubSeq(text, k + 1, Len(text)), sep)

RECURSIVE Join(_, _)
\* pieces.join(sep)
Join(pieces, sep) ==
  IF Len(pieces) = 0 THEN <<>>
  ELSE IF Len(pieces) = 1 THEN pieces[1]
  ELSE pieces[1] \o sep \o Join(Tail(pieces), sep)

WhiteSpace == {" ", NL}

RECURSIVE TrimStart(_)
TrimStart(text) ==
  IF Len(text) > 0 /\ text[1] \in WhiteSpace THEN TrimStart(Tail(text)) ELSE text

RECURSIVE TrimEnd(_)
TrimEnd(text) ==
  IF Len(text) > 0 /\ text[Len(text)] \in WhiteSpace
    THEN TrimEnd(SubSeq(text, 1, Len(text) - 1))
    ELSE text

\* text.trim()
Trim(text) == TrimEnd(TrimStart(text))

\* text.startsWith(token)
StartsWith(text, token) == Len(text) > 0 /\ text[1] = token

-----------------------------------------------------------------------------
(* comment(type) *)

startText(type) == IF type = "docment" THEN <<"/**", NL>> ELSE <<>>

endText(type) == IF type = "docment" THEN <<NL, " */", NL>> ELSE <<NL>>

preText(type) == IF type = "docment" THEN " *" ELSE "//"

\* docmentTransformeKeyArr's '[title]' entry: /\[title\](.*)/ captures the
\* rest of the first line (. does not match a newline)
TitleTransform(text) ==
  LET nextText == Split(Tail(text), NL)[1]
  IN Trim(nextText) \o <<NL, "---">>

transformeText(type, text) ==
  IF type = "line" THEN text
  ELSE IF StartsWith(text, "[title]") THEN TitleTransform(text)
  ELSE IF text = <<"[deprecated]">> THEN <<"@deprecated">>
  ELSE text

PrefixLines(type, text) ==
  LET lines == Split(text, NL)
  IN Join([i \in 1..Len(lines) |-> <<preText(type), " ">> \o lines[i]], <<NL>>)

\* a new builder: str = '', idx = 0
comment(type) == [type |-> type, str |-> <<>>, idx |-> 0]

\* the mutant: the newline between two fragments is forgotten
CommentAddNoSeparator(c, text) ==
  [c EXCEPT !.str = c.str \o PrefixLines(c.type, transformeText(c.type, text)),
            !.idx = c.idx + 1]

\* add(text)
CommentAdd(c, text) ==
  [c EXCEPT !.str = (IF c.idx # 0 THEN c.str \o <<NL>> ELSE c.str)
                      \o PrefixLines(c.type, transformeText(c.type, text)),
            !.idx = c.idx + 1]

\* end()
CommentEnd(c) ==
  IF c.str = <<>> THEN c.str ELSE startText(c.type) \o c.str \o endText(c.type)

-----------------------------------------------------------------------------
(* ./openapi: isReferenceObject, get$refName, findBy$ref.  A pointer       *)
(* '#/components/schemas/B' is the tuple of its segments.                  *)

isReferenceObject(schema) == "ref" \in DOMAIN schema

\* the display name: the pointer's last segment
getRefName(ref) == ref[Len(ref)]

RECURSIVE Walk(_, _)
Walk(path, node) == IF path = <<>> THEN node ELSE Walk(Tail(path), node[path[1]])

\* the schema the pointer locates in the document
findByRef(ref, openApi) == Walk(Tail(ref), openApi)

-----------------------------------------------------------------------------
(* Schema2TypeOptions and the schema's optional fields.  An optional field *)
(* that is absent is absent from the record's DOMAIN.  schema.type is      *)
(* [str |-> t] for a string and [arr |-> ts] for a list of type names;     *)
(* schema.items is [one |-> s] for a schema and [list |-> ss] for a tuple. *)

Has(obj, field) == field \in DOMAIN obj

\* config.deep
Deep(config) == Has(config, "deep") /\ config.deep

\* config.defaultType ?? 'unknown'
DefaultType(config) == IF Has(config, "defaultType") THEN config.defaultType ELSE "unknown"

\* config.commentStyle ?? 'line'
CommentStyle(config) == IF Has(config, "commentStyle") THEN config.commentStyle ELSE "line"

\* config.on$Ref?.(ref): the references handed to the observer
Notify(config, ref) == IF Has(config, "onRef") THEN <<ref>> ELSE <<>>

\* What a call returns and what it did on the way: the type text, the
\* references handed to on$Ref in order, the references it resolved and
\* descended into, and whether it ended in a RangeError (call stack
\* exhausted) instead of returning.
Returned(text) == [text |-> text, refs |-> <<>>, entered |-> <<>>, overflow |-> FALSE]

RangeError == [text |-> <<>>, refs |-> <<>>, entered |-> <<>>, overflow |-> TRUE]

\* r, preceded by the notifications and descents made before it
Preceded(refs, entered, r) ==
  [r EXCEPT !.refs = refs \o r.refs, !.entered = entered \o r.entered]

\* JSON.stringify of a string value
Stringify(value) == "\"" \o value \o "\""

\* parseEnum: schema.enum.map(JSON.stringify).join(' | ') || ''
parseEnum(schema) ==
  Join([i \in 1..Len(schema.enum) |-> <<Stringify(schema.enum[i])>>], <<" | ">>)

\* the default branch's last return:
\* typeof schema.type === 'string' ? (schema.type || defaultType) ?? 'unknown'
\*                                 : defaultType ?? 'unknown'
FallbackType(schema, config) ==
  IF Has(schema, "type") /\ Has(schema.type, "str") /\ schema.type.str # ""
    THEN <<schema.type.str>>
    ELSE <<DefaultType(config)>>

\* `${array}` in a template literal: Array.prototype.toString, join(',')
ArrayToString(pieces) == Join(pieces, <<",">>)

\* parseArray's tuple return: `[\n${types.map(type => `${type},\n`)}\n]`
TupleText(types) ==
  <<"[", NL>> \o ArrayToString([i \in 1..Len(types) |-> types[i] \o <<",", NL>>])
              \o <<NL, "]">>

\* the documentation of one property (parseObject, the doc.add calls)
PropertyDoc(value, isRequired, config) ==
  LET c0 == comment(CommentStyle(config))
      c1 == IF Has(value, "title") /\ value.title # <<>>
              THEN CommentAdd(c0, <<"[title]", " ">> \o value.title) ELSE c0
      c2 == IF Has(value, "description") /\ value.description # <<>>
              THEN CommentAdd(c1, value.description) ELSE c1
      c3 == IF isRequired THEN CommentAdd(c2, <<"[required]">>) ELSE c2
      c4 == IF Has(value, "deprecated") /\ value.deprecated
              THEN CommentAdd(c3, <<"[deprecated]">>) ELSE c3
  IN CommentEnd(c4)

\* the lines one property contributes, each indented by one space
PropertyLines(key, isRequired, value, type, config) ==
  LET valueStr == PropertyDoc(value, isRequired, config)
                    \o <<key>> \o (IF isRequired THEN <<>> ELSE <<"?">>)
                    \o <<": ">> \o type \o <<";">>
      split == Split(valueStr, NL)
  IN [i \in 1..Len(split) |-> <<" ">> \o split[i]]

\* the wrapping of a single-schema array by the resolved item's shape
WrapItems(items, type) ==
  IF Has(items, "type") /\ Has(items.type, "str") /\ items.type.str = "object"
    THEN <<"Array<">> \o type \o <<">">>
  ELSE IF Has(items, "type") /\ Has(items.type, "str") /\ items.type.str = "array"
    THEN type \o <<"[]">>
  ELSE IF Has(items, "oneOf") \/ Has(items, "enum")
    THEN <<"(">> \o type \o <<")[]">>
  ELSE type \o <<"[]">>

RECURSIVE parseSchema(_, _, _, _), parseObject(_, _, _, _), parseArray(_, _, _, _),
          ParseEach(_, _, _, _), ObjectLines(_, _, _, _, _)

\* schemas.map(item => parseSchema(item, openApi, config)): the texts in
\* order; a RangeError in one element ends the map
ParseEach(schemas, openApi, config, fuel) ==
  IF schemas = <<>> THEN [texts |-> <<>>, refs |-> <<>>, entered |-> <<>>, overflow |-> FALSE]
  ELSE LET first == parseSchema(schemas[1], openApi, config, fuel)
       IN IF first.overflow
            THEN [texts |-> <<>>, refs |-> first.refs, entered |-> first.entered,
                  overflow |-> TRUE]
            ELSE LET rest == ParseEach(Tail(schemas), openApi, config, fuel)
                 IN [texts |-> <<first.text>> \o rest.texts,
                     refs |-> first.refs \o rest.refs,
                     entered |-> first.entered \o rest.entered,
                     overflow |-> rest.overflow]

\* parseSchema's body once the node is resolved: enum, the switch on
\* schema.type, oneOf, the fallback
Dispatch(schema, openApi, config, fuel) ==
  IF Has(schema, "enum") THEN Returned(parseEnum(schema))
  ELSE LET type == IF Has(schema, "type") /\ Has(schema.type, "str")
                     THEN schema.type.str ELSE "(none)"
       IN CASE type = "object" -> parseObject(schema, openApi, config, fuel)
            [] type = "array" -> parseArray(schema, openApi, config, fuel)
            [] type = "string" -> Returned(<<"string">>)
            [] type \in {"number", "integer"} -> Returned(<<"number">>)
            [] type = "boolean" -> Returned(<<"boolean">>)
            [] type = "null" -> Returned(<<"null">>)
            [] OTHER ->
                 IF Has(schema, "oneOf")
                   THEN LET each == ParseEach(schema.oneOf, openApi, config, fuel)
                        IN [text |-> Join(each.texts, <<" | ">>), refs |-> each.refs,
                            entered |-> each.entered, overflow |-> each.overflow]
                   ELSE Returned(FallbackType(schema, config))

parseSchema(schemaOrigin, openApi, config, fuel) ==
  IF isReferenceObject(schemaOrigin)
    THEN LET fired == Notify(config, schemaOrigin.ref)
         IN IF ~Deep(config)
              THEN Preceded(fired, <<>>, Returned(<<getRefName(schemaOrigin.ref)>>))
            ELSE IF fuel = 0
              THEN Preceded(fired, <<>>, RangeError)
            ELSE Preceded(fired, <<schemaOrigin.ref>>,
                          Dispatch(findByRef(schemaOrigin.ref, openApi), openApi, config,
                                   fuel - 1))
    ELSE Dispatch(schemaOrigin, openApi, config, fuel)

\* the for loop of parseObject over Object.entries(properties)
ObjectLines(entries, required, openApi, config, fuel) ==
  IF entries = <<>> THEN [texts |-> <<>>, refs |-> <<>>, entered |-> <<>>, overflow |-> FALSE]
  ELSE LET key == entries[1].key
           valueOrigin == entries[1].value
           value == IF isReferenceObject(valueOrigin)
                      THEN findByRef(valueOrigin.ref, openApi) ELSE valueOrigin
           type == parseSchema(valueOrigin, openApi, config, fuel)
       IN IF type.overflow
            THEN [texts |-> <<>>, refs |-> type.refs, entered |-> type.entered,
                  overflow |-> TRUE]
            ELSE LET rest == ObjectLines(Tail(entries), required, openApi, config, fuel)
                 IN [texts |-> PropertyLines(key, key \in required, value, type.text, config)
                                 \o rest.texts,
                     refs |-> type.refs \o rest.refs,
                     entered |-> type.entered \o rest.entered,
                     overflow |-> rest.overflow]

parseObject(schema, openApi, config, fuel) ==
  LET properties == IF Has(schema, "properties") THEN schema.properties ELSE <<>>
      required == IF Has(schema, "required") THEN schema.required ELSE {}
      body == ObjectLines(properties, required, openApi, config, fuel)
      lines == << <<"{">> >> \o body.texts \o << <<"}">> >>
  IN [text |-> IF Len(lines) > 2 THEN Join(lines, <<NL>>) ELSE <<"object">>,
      refs |-> body.refs, entered |-> body.entered, overflow |-> body.overflow]

\* the mutant: a reference item is resolved and parsed whatever deep says
ParseArrayIgnoresDeep(schema, openApi, config, fuel) ==
  IF Has(schema, "items") /\ Has(schema.items, "list")
    THEN LET each == ParseEach(schema.items.list, openApi, config, fuel)
         IN [text |-> TupleText(each.texts), refs |-> each.refs,
             entered |-> each.entered, overflow |-> each.overflow]
  ELSE IF Has(schema, "items")
    THEN LET given == schema.items.one
         IN IF isReferenceObject(given) /\ fuel = 0
              THEN RangeError
            ELSE LET items == IF isReferenceObject(given)
                                THEN findByRef(given.ref, openApi) ELSE given
                     type == parseSchema(items, openApi, config,
                                         IF isReferenceObject(given) THEN fuel - 1 ELSE fuel)
                 IN Preceded(<<>>, IF isReferenceObject(given) THEN <<given.ref>> ELSE <<>>,
                             [type EXCEPT !.text = WrapItems(items, type.text)])
  ELSE Returned(<<"[]">>)

parseArray(schema, openApi, config, fuel) ==
  IF Has(schema, "items") /\ Has(schema.items, "list")
    THEN LET each == ParseEach(schema.items.list, openApi, config, fuel)
         IN [text |-> TupleText(each.texts), refs |-> each.refs,
             entered |-> each.entered, overflow |-> each.overflow]
  ELSE IF Has(schema, "items")
    THEN LET given == schema.items.one
         IN IF isReferenceObject(given) /\ ~Deep(config)
              THEN Preceded(Notify(config, given.ref), <<>>,
                            Returned(<<getRefName(given.ref), "[]">>))
            ELSE IF isReferenceObject(given) /\ fuel = 0
              THEN RangeError
            ELSE LET items == IF isReferenceObject(given)
                                THEN findByRef(given.ref, openApi) ELSE given
                     type == parseSchema(items, openApi, config,
                                         IF isReferenceObject(given) THEN fuel - 1 ELSE fuel)
                 IN Preceded(<<>>, IF isReferenceObject(given) THEN <<given.ref>> ELSE <<>>,
                             [type EXCEPT !.text = WrapItems(items, type.text)])
  ELSE Returned(<<"[]">>)

CommentStyles == {"line", "docment"}

-----------------------------------------------------------------------------
(* convertToType: parseSchema, the awaited format() of ../utils, the       *)
(* extraction of the type expression                                       *)

\* the value of a missing argument
Undefined == [undefined |-> TRUE]

\* the text handed to format(): `type Ts = ${tsStr}`
FormatSource(tsStr) == <<"type Ts = ">> \o tsStr

\* What the promise of format(source, {semi: false}) can settle to: the
\* source on one line and newline-terminated; the declaration broken after
\* '=' (the printer's layout of a union too long for one line); a rejection
\* (the printer cannot parse the source).
FormatOutcomes(source) ==
  { [kind |-> "resolved", text |-> source \o <<NL>>],
    [kind |-> "resolved", text |-> <<"type Ts =", NL, "  ">> \o Tail(source) \o <<NL>>],
    [kind |-> "rejected"] }

\* whether /type Ts = (.*)/s finds its head in the text
MatchesTs(text) == \E i \in 1..Len(text) : text[i] = "type Ts = "

\* /type Ts = (.*)/s.exec(tsStrFormat)?.[1] ?? ''
ExtractTs(text) ==
  IF MatchesTs(text)
    THEN LET k == CHOOSE i \in 1..Len(text) :
                    text[i] = "type Ts = " /\ \A j \in 1..(i - 1) : text[j] # "type Ts = "
         IN SubSeq(text, k + 1, Len(text))
    ELSE <<>>

\* config.preText in a string concatenation
PreTextOf(config) == IF Has(config, "preText") THEN config.preText ELSE <<"undefined">>

\* the lines after the await: trim, split, prefix every line but the first
Reindent(resultFormat, config) ==
  LET tsStrArr == Split(Trim(resultFormat), NL)
  IN Join([i \in 1..Len(tsStrArr) |->
             (IF i > 1 THEN PreTextOf(config) ELSE <<>>) \o tsStrArr[i]], <<NL>>)

\* how the promise of convertToType settles once format() has settled
ConvertSettles(outcome, config) ==
  IF outcome.kind = "rejected"
    THEN [kind |-> "thrown", error |-> "format"]
    ELSE [kind |-> "returned", text |-> Reindent(ExtractTs(outcome.text), config)]

\* `interface ${name} ${tsStr}`, with `export ` in front when asked
Declaration(name, tsStr, options) ==
  (IF Has(options, "export") /\ options.export THEN <<"export ">> ELSE <<>>)
    \o <<"interface ", name, " ">> \o tsStr

-----------------------------------------------------------------------------
(* Documents and schemas the calls are made on *)

Str(t) == [str |-> t]

Ref(name) == [ref |-> <<"#", "components", "schemas", name>>]

Document(schemas) == [components |-> [schemas |-> schemas]]

\* A references B twice and C through an array; B references C
SharedDoc ==
  Document([A |-> [type |-> Str("object"), required |-> {"b"},
                   properties |-> << [key |-> "b", value |-> Ref("B")],
                                     [key |-> "again", value |-> Ref("B")],
                                     [key |-> "cs", value |->
                                        [type |-> Str("array"), items |-> [one |-> Ref("C")]]] >>],
            B |-> [type |-> Str("object"), title |-> <<"Bee">>, deprecated |-> TRUE,
                   properties |-> << [key |-> "c", value |-> Ref("C")] >>],
            C |-> [type |-> Str("string"), description |-> <<"sea">>]])

\* A references B and B references A
MutualDoc ==
  Document([A |-> [type |-> Str("object"),
                   properties |-> << [key |-> "b", value |-> Ref("B")] >>],
            B |-> [type |-> Str("object"),
                   properties |-> << [key |-> "a", value |-> Ref("A")] >>],
            C |-> [type |-> Str("string")]])

\* A references B, B references C, C references nothing
ChainDoc ==
  Document([A |-> [type |-> Str("object"),
                   properties |-> << [key |-> "b", value |-> Ref("B")] >>],
            B |-> [type |-> Str("object"),
                   properties |-> << [key |-> "c", value |-> Ref("C")] >>],
            C |-> [type |-> Str("string")]])

\* A references B twice, B references nothing
TwiceDoc ==
  Document([A |-> [type |-> Str("object"),
                   properties |-> << [key |-> "b", value |-> Ref("B")],
                                     [key |-> "again", value |-> Ref("B")] >>],
            B |-> [type |-> Str("object"), title |-> <<"Bee">>,
                   properties |-> << [key |-> "n", value |-> [type |-> Str("integer")]] >>],
            C |-> [type |-> Str("string")]])

Names == {"A", "B", "C"}

Leaves ==
  { [type |-> Str("string")], [type |-> Str("integer")], [type |-> Str("number")],
    [type |-> Str("boolean")], [type |-> Str("null")],
    [type |-> Str("file")], [type |-> Str("")],
    [type |-> [arr |-> <<"string", "null">>]],
    [title |-> <<"T">>],
    [type |-> Str("string"), title |-> <<"T">>, description |-> <<"D", NL, "E">>,
     deprecated |-> TRUE],
    [enum |-> <<"a", "b">>], [enum |-> <<>>],
    [enum |-> <<"a">>, type |-> Str("file")],
    [type |-> Str("object")], [type |-> Str("array")],
    Ref("B"), Ref("C") }

TupleLeaves == { [type |-> Str("string")], [type |-> Str("integer")], Ref("B") }

RECURSIVE Tuples(_)
\* the sequences over TupleLeaves of length at most n
Tuples(n) ==
  IF n = 0 THEN { <<>> }
  ELSE Tuples(n - 1) \cup
       { Append(t, l) : t \in { u \in Tuples(n - 1) : Len(u) = n - 1 }, l \in TupleLeaves }

OneProperty ==
  { [type |-> Str("object"), required |-> r,
     properties |-> << [key |-> "p", value |-> l] >>] : l \in Leaves, r \in {{}, {"p"}} }

TwoReferences ==
  { [type |-> Str("object"),
     properties |-> << [key |-> "p", value |-> Ref(m)], [key |-> "q", value |-> Ref(n)] >>]
      : m \in {"B", "C"}, n \in {"B", "C"} }

Unions ==
  { [oneOf |-> <<l, m>>] : l \in TupleLeaves, m \in TupleLeaves }
    \cup { [oneOf |-> <<Ref("B")>>, type |-> Str("file")],
           [oneOf |-> <<Ref("B")>>, type |-> Str("string")] }

TupleArrays == { [type |-> Str("array"), items |-> [list |-> t]] : t \in Tuples(MaxTuple) }

ArraysOf(schemas) == { [type |-> Str("array"), items |-> [one |-> x]] : x \in schemas }

EngineSchemas ==
  Leaves \cup OneProperty \cup TwoReferences \cup Unions \cup TupleArrays
    \cup ArraysOf(Leaves) \cup ArraysOf(Unions)
    \cup ArraysOf({ o \in OneProperty : o.required = {} /\ isReferenceObject(o.properties[1].value) })
    \cup ArraysOf(ArraysOf({Ref("C")}))

\* Schema2TypeOptions: every optional field present or absent
EngineConfigs ==
  { [deep |-> d] : d \in BOOLEAN }
    \cup { [deep |-> d, onRef |-> TRUE] : d \in BOOLEAN }
    \cup { [deep |-> d, onRef |-> TRUE, defaultType |-> t, commentStyle |-> c]
             : d \in BOOLEAN, t \in {"any", "unknown"}, c \in CommentStyles }
    \cup { [defaultType |-> "any", onRef |-> TRUE] }

-----------------------------------------------------------------------------
(* The comment builder as a state machine: add* then end *)

Fragments ==
  { <<"[title]", " ", "X">>, <<"[title]", " ", "X", " ", NL, "Y">>,
    <<"[deprecated]">>, <<"[required]">>, <<"[deprecated]", " ", "soon">>,
    <<"D">>, <<"D", NL, "E">>, <<>> }

CommentIdle ==
  /\ cType = "line" /\ cStr = <<>> /\ cIdx = 0
  /\ cAdded = <<>> /\ cEnded = FALSE /\ cOut = <<>>

EngineIdle ==
  /\ eSchema = [type |-> [str |-> "null"]]
  /\ eConfig = [deep |-> FALSE]
  /\ ePc = "idle"
  /\ eResult = [text |-> <<>>, refs |-> <<>>, entered |-> <<>>, overflow |-> FALSE]

FormatIdle ==
  /\ fSchema = [type |-> [str |-> "null"]]
  /\ fConfig = [deep |-> FALSE]
  /\ fPc = "idle"
  /\ fFormatted = [kind |-> "none"]
  /\ fResult = [kind |-> "none"]

CollectorIdle ==
  /\ doc = <<>> /\ opts = [deep |-> FALSE] /\ rootName = "" /\ stack = <<>>
  /\ awaiting = {} /\ memo = <<>> /\ sinkLog = <<>> /\ started = <<>>
  /\ nextId = 0 /\ rejected = {} /\ topResult = [kind |-> "none"]

InitComment ==
  /\ cType \in CommentStyles
  /\ cStr = comment(cType).str
  /\ cIdx = comment(cType).idx
  /\ cAdded = <<>> /\ cEnded = FALSE /\ cOut = <<>>
  /\ EngineIdle /\ FormatIdle /\ CollectorIdle

Add(text) ==
  /\ ~cEnded
  /\ Len(cAdded) < MaxAdds
  /\ LET c == CommentAdd([type |-> cType, str |-> cStr, idx |-> cIdx], text)
     IN cStr' = c.str /\ cIdx' = c.idx
  /\ cAdded' = Append(cAdded, text)
  /\ UNCHANGED <<cType, cEnded, cOut>>
  /\ UNCHANGED <<engineVars, formatVars, collectorVars>>

End ==
  /\ ~cEnded
  /\ cEnded' = TRUE
  /\ cOut' = CommentEnd([type |-> cType, str |-> cStr, idx |-> cIdx])
  /\ UNCHANGED <<cType, cStr, cIdx, cAdded>>
  /\ UNCHANGED <<engineVars, formatVars, collectorVars>>

NextComment == (\E text \in Fragments : Add(text)) \/ End

SpecComment == InitComment /\ [][NextComment]_vars

-----------------------------------------------------------------------------
(* C9 *)

\* what the claim says a fragment becomes: verbatim lines in line style; in
\* block style '[title] X' is 'X' and a '---' line, a bare '[deprecated]' is
\* '@deprecated', anything else verbatim
ClaimedLines(style, frag) ==
  IF style = "docment" /\ Len(frag) > 0 /\ frag[1] = "[title]"
    THEN << Trim(Split(SubSeq(frag, 2, Len(frag)), NL)[1]), <<"---">> >>
  ELSE IF style = "docment" /\ frag = <<"[deprecated]">>
    THEN << <<"@deprecated">> >>
  ELSE Split(frag, NL)

RECURSIVE ClaimedAll(_, _)
ClaimedAll(style, frags) ==
  IF frags = <<>> THEN <<>>
  ELSE ClaimedLines(style, frags[1]) \o ClaimedAll(style, Tail(frags))

\* the physical lines of a newline-terminated text
PhysicalLines(text) ==
  LET pieces == Split(text, NL) IN SubSeq(pieces, 1, Len(pieces) - 1)

\* the content lines of a rendered comment, delimiters dropped
ContentLines(style, text) ==
  LET lines == PhysicalLines(text)
  IN IF style = "docment" THEN SubSeq(lines, 2, Len(lines) - 1) ELSE lines

\* C9: end() is empty exactly when nothing was added; otherwise it is
\* newline-terminated, block style is delimited by '/**' and ' */', every
\* content line carries the style's prefix, and with the prefix removed the
\* content lines are the claimed lines of the fragments in the order added.
C9_CommentOrderAndShape ==
  cEnded =>
    /\ (cOut = <<>>) <=> (cAdded = <<>>)
    /\ cAdded # <<>> =>
         LET lines == PhysicalLines(cOut)
             content == ContentLines(cType, cOut)
         IN /\ cOut[Len(cOut)] = NL
            /\ cType = "docment" =>
                 lines[1] = <<"/**">> /\ lines[Len(lines)] = <<" */">>
            /\ \A i \in 1..Len(content) :
                 /\ Len(content[i]) >= 2
                 /\ content[i][1] = (IF cType = "docment" THEN " *" ELSE "//")
                 /\ content[i][2] = " "
            /\ [i \in 1..Len(content) |-> SubSeq(content[i], 3, Len(content[i]))]
                 = ClaimedAll(cType, cAdded)

\* a block-style builder ended after a title, a multi-line description and
\* a deprecated marker
C9_Witness ==
  /\ cEnded /\ cType = "docment"
  /\ cAdded = << <<"[title]", " ", "X">>, <<"D", NL, "E">>, <<"[deprecated]">> >>

-----------------------------------------------------------------------------
(* One parseSchema call on a schema of SharedDoc *)

InitEngine ==
  /\ eSchema \in EngineSchemas
  /\ eConfig \in EngineConfigs
  /\ ePc = "called"
  /\ eResult = Returned(<<>>)
  /\ CommentIdle /\ FormatIdle /\ CollectorIdle

\* parseSchema(schema, openApi, config) runs to its return (or RangeError)
ParseSchemaCall ==
  /\ ePc = "called"
  /\ eResult' = parseSchema(eSchema, SharedDoc, eConfig, MaxInline)
  /\ ePc' = "returned"
  /\ UNCHANGED <<eSchema, eConfig>>
  /\ UNCHANGED <<commentVars, formatVars, collectorVars>>

NextEngine == ParseSchemaCall

SpecEngine == InitEngine /\ [][NextEngine]_vars

-----------------------------------------------------------------------------
(* C6 *)

RecognizedTypes == {"object", "array", "string", "number", "integer", "boolean", "null"}

\* no enum, no oneOf, not a reference, and the type absent or none of the
\* recognized names
UnrecognizedShape(schema) ==
  /\ ~isReferenceObject(schema)
  /\ ~Has(schema, "enum") /\ ~Has(schema, "oneOf")
  /\ \/ ~Has(schema, "type")
     \/ Has(schema.type, "arr")
     \/ Has(schema.type, "str") /\ schema.type.str \notin RecognizedTypes

\* C6: a node with no enum, no oneOf and an absent or unrecognized type
\* renders as exactly the configured defaultType ('unknown' when none is
\* configured), whether the type is absent or unrecognized.
C6_UnrecognizedIsDefaultType ==
  (ePc = "returned" /\ UnrecognizedShape(eSchema)) =>
    eResult.text = << IF Has(eConfig, "defaultType") THEN eConfig.defaultType
                      ELSE "unknown" >>

-----------------------------------------------------------------------------
(* C7 *)

IsObjectNode(schema) ==
  ~Has(schema, "enum") /\ Has(schema, "type") /\ Has(schema.type, "str")
    /\ schema.type.str = "object"

IsArrayNode(schema) ==
  ~Has(schema, "enum") /\ Has(schema, "type") /\ Has(schema.type, "str")
    /\ schema.type.str = "array"

IsUnionNode(schema) ==
  ~Has(schema, "enum") /\ Has(schema, "oneOf")
    /\ ~(Has(schema, "type") /\ Has(schema.type, "str")
           /\ schema.type.str \in RecognizedTypes)

RECURSIVE Occurrences(_), OccurrencesEach(_)
\* the reference nodes of the tree as written, in document order: property
\* values, the single item, tuple elements, oneOf branches; the schema a
\* reference points to is not part of the tree
Occurrences(schema) ==
  IF isReferenceObject(schema) THEN <<schema.ref>>
  ELSE IF IsObjectNode(schema) /\ Has(schema, "properties")
    THEN OccurrencesEach([i \in 1..Len(schema.properties) |-> schema.properties[i].value])
  ELSE IF IsArrayNode(schema) /\ Has(schema, "items")
    THEN IF Has(schema.items, "list") THEN OccurrencesEach(schema.items.list)
         ELSE Occurrences(schema.items.one)
  ELSE IF IsUnionNode(schema) THEN OccurrencesEach(schema.oneOf)
  ELSE <<>>

OccurrencesEach(schemas) ==
  IF schemas = <<>> THEN <<>>
  ELSE Occurrences(schemas[1]) \o OccurrencesEach(Tail(schemas))

\* C7: with deep unset no referenced schema is resolved and descended
\* into, and the observer is handed exactly the reference occurrences of
\* the tree, one call per occurrence.
C7_ShallowRefsOncePerOccurrence ==
  (ePc = "returned" /\ ~Deep(eConfig) /\ Has(eConfig, "onRef")) =>
    /\ eResult.entered = <<>>
    /\ eResult.refs = Occurrences(eSchema)
    /\ ~eResult.overflow

\* a shallow call on an object whose two properties reference the same schema
C7_Witness ==
  /\ ePc = "returned" /\ ~Deep(eConfig) /\ Has(eConfig, "onRef")
  /\ eSchema = [type |-> Str("object"),
                properties |-> << [key |-> "p", value |-> Ref("B")],
                                  [key |-> "q", value |-> Ref("B")] >>]
  /\ eResult.refs = << Ref("B").ref, Ref("B").ref >>

-----------------------------------------------------------------------------
(* C8 *)

\* the element slots of a rendered tuple: the text between '[' and ']',
\* line breaks dropped, cut at each ','; one trailing separator closes the
\* last element and opens no slot
TupleSlots(text) ==
  LET inner == SubSeq(text, 2, Len(text) - 1)
      flat == SelectSeq(inner, LAMBDA tok : tok # NL)
      pieces == Split(flat, ",")
  IN IF pieces[Len(pieces)] = <<>> THEN SubSeq(pieces, 1, Len(pieces) - 1) ELSE pieces

\* C8: a tuple-form array of n elements renders inside [ ] exactly its n
\* element types in order, one separator between consecutive elements and no
\* empty slot, for every n >= 0.
C8_TupleListsEachElementOnce ==
  (ePc = "returned" /\ IsArrayNode(eSchema) /\ Has(eSchema, "items")
     /\ Has(eSchema.items, "list") /\ ~Deep(eConfig)) =>
    /\ eResult.text[1] = "[" /\ eResult.text[Len(eResult.text)] = "]"
    /\ TupleSlots(eResult.text)
         = [i \in 1..Len(eSchema.items.list) |->
              parseSchema(eSchema.items.list[i], SharedDoc, eConfig, MaxInline).text]

-----------------------------------------------------------------------------
(* One convertToType call on a schema of MutualDoc *)

FormatSchemas ==
  Leaves \cup Unions \cup { Undefined, Ref("A"),
                            [type |-> Str("object"),
                             properties |-> << [key |-> "p", value |-> Ref("C")] >>] }

FormatConfigs ==
  { [deep |-> d, defaultType |-> t, commentStyle |-> "line", preText |-> x]
      : d \in BOOLEAN, t \in {"any", "unknown"}, x \in { <<>>, <<"  ">> } }
    \cup { [deep |-> TRUE] }

InitFormat ==
  /\ fSchema \in FormatSchemas
  /\ fConfig \in FormatConfigs
  /\ fPc = "called"
  /\ fFormatted = [kind |-> "none"]
  /\ fResult = [kind |-> "none"]
  /\ CommentIdle /\ EngineIdle /\ CollectorIdle

\* the call up to its first await: a missing schema returns the default
\* type at once, a RangeError of parseSchema rejects, otherwise format() is
\* called and the call is suspended
ConvertToTypeCall ==
  /\ fPc = "called"
  /\ IF fSchema = Undefined
       THEN /\ fResult' = [kind |-> "returned", text |-> <<DefaultType(fConfig)>>]
            /\ fPc' = "settled"
            /\ UNCHANGED fFormatted
       ELSE \E r \in { parseSchema(fSchema, MutualDoc, fConfig, MaxInline) } :
              IF r.overflow
                THEN /\ fResult' = [kind |-> "thrown", error |-> "RangeError"]
                     /\ fPc' = "settled"
                     /\ UNCHANGED fFormatted
                ELSE /\ fFormatted' = [kind |-> "pending", text |-> FormatSource(r.text)]
                     /\ fPc' = "awaiting"
                     /\ UNCHANGED fResult
  /\ UNCHANGED <<fSchema, fConfig>>
  /\ UNCHANGED <<commentVars, engineVars, collectorVars>>

\* format() settles and the call runs to its end
ConvertToTypeResume ==
  /\ fPc = "awaiting"
  /\ \E outcome \in FormatOutcomes(fFormatted.text) :
       /\ fFormatted' = outcome
       /\ fResult' = ConvertSettles(outcome, fConfig)
  /\ fPc' = "settled"
  /\ UNCHANGED <<fSchema, fConfig>>
  /\ UNCHANGED <<commentVars, engineVars, collectorVars>>

NextFormat == ConvertToTypeCall \/ ConvertToTypeResume

SpecFormat == InitFormat /\ [][NextFormat]_vars

-----------------------------------------------------------------------------
(* C5 *)

\* C5: when the printer's output does not match 'type Ts = ...',
\* convertToType fails with an error; it never returns a string.
C5_UnmatchedOutputFails ==
  (fPc = "settled" /\ fFormatted.kind = "resolved" /\ ~MatchesTs(fFormatted.text))
    => fResult.kind = "thrown"

-----------------------------------------------------------------------------
(* jsonSchema2TsStr: one top-level request.  The synchronous part of the   *)
(* request is a stack of jsonSchema2TsStr calls, each inside the           *)
(* parseSchema traversal of its caller: on$Ref is an async function that   *)
(* parseSchema calls and does not await, so a nested call runs up to its   *)
(* own await of format() and the caller's traversal goes on.  The calls    *)
(* suspended at format() are resumed, in whatever order format() settles,  *)
(* once the synchronous part has run to its end.                           *)

\* the config jsonSchema2TsStr hands to convertToType
CollectorConfig(options) ==
  [deep |-> Deep(options), defaultType |-> "unknown", commentStyle |-> "docment",
   preText |-> <<>>, onRef |-> TRUE]

\* a jsonSchema2TsStr call that has entered convertToType, parsed being what
\* its parseSchema call does: the references parseSchema still has to hand
\* to on$Ref, and how parseSchema ends
Frame(id, name, parsed) ==
  [id |-> id, name |-> name, pending |-> parsed.refs, tsStr |-> parsed.text,
   overflow |-> parsed.overflow]

EmptyMemo == [n \in {} |-> <<>>]

\* map.set(name, text)
MapSet(map, name, text) ==
  [n \in DOMAIN map \cup {name} |-> IF n = name THEN text ELSE map[n]]

\* options.on$RefTsStr(name, text) as the sink sees it: its arguments and
\* what the memo holds for the name at that moment
SinkCall(map, name, text) ==
  [name |-> name, text |-> text,
   held |-> IF name \in DOMAIN map THEN map[name] ELSE <<"(no entry)">>]

\* the mutant: the sink is told before the result is stored
OnRefResumeNotifyFirst(map, log, name, result) ==
  [map |-> MapSet(map, name, result),
   log |-> Append(log, SinkCall(map, name, result))]

\* on$Ref after its await: map.set(name, result); on$RefTsStr(name, result)
OnRefResume(map, log, name, result) ==
  LET stored == MapSet(map, name, result)
  IN [map |-> stored, log |-> Append(log, SinkCall(stored, name, result))]

\* on$Ref on a name the map has: on$RefTsStr(name, map.get(name) ?? '')
OnRefCached(map, log, name) == Append(log, SinkCall(map, name, map[name]))

CollectorDocs == {TwiceDoc, ChainDoc, MutualDoc}

CollectorOptions ==
  { [deep |-> d, export |-> x, sink |-> k] : d \in BOOLEAN, x \in BOOLEAN, k \in BOOLEAN }

\* a declaration of B the caller's map may already hold
CachedB == <<"interface ", "B", " ", "object">>

\* the map argument: a new Map, or the caller's map holding a declaration
CallerMaps == { EmptyMemo, MapSet(EmptyMemo, "B", CachedB) }

Top == 1

InitCollector ==
  /\ doc \in CollectorDocs
  /\ opts \in CollectorOptions
  /\ rootName = "A"
  /\ memo \in CallerMaps
  /\ stack = <<>> /\ awaiting = {} /\ sinkLog = <<>> /\ started = <<>>
  /\ nextId = Top /\ rejected = {} /\ topResult = [kind |-> "none"]
  /\ CommentIdle /\ EngineIdle /\ FormatIdle

Current == stack[Len(stack)]

Advance == [stack EXCEPT ![Len(stack)].pending = Tail(@)]

\* the caller calls jsonSchema2TsStr(schema, name, openApi, options, map)
Request ==
  /\ nextId = Top
  /\ \E parsed \in { parseSchema(doc.components.schemas[rootName], doc,
                                    CollectorConfig(opts), MaxInline) } :
       stack' = << Frame(Top, rootName, parsed) >>
  /\ nextId' = Top + 1
  /\ UNCHANGED <<doc, opts, rootName, awaiting, memo, sinkLog, started, rejected, topResult>>
  /\ UNCHANGED <<commentVars, engineVars, formatVars>>

\* parseSchema hands a reference to on$Ref and no sink is registered
OnRefNoSink ==
  /\ stack # <<>> /\ Current.pending # <<>>
  /\ ~opts.sink
  /\ stack' = Advance
  /\ UNCHANGED <<doc, opts, rootName, awaiting, memo, sinkLog, started, nextId, rejected,
                 topResult>>
  /\ UNCHANGED <<commentVars, engineVars, formatVars>>

\* on$Ref finds the name in the map and tells the sink the cached text
OnRefHit ==
  /\ stack # <<>> /\ Current.pending # <<>>
  /\ opts.sink
  /\ LET name == getRefName(Current.pending[1])
     IN /\ name \in DOMAIN memo
        /\ sinkLog' = OnRefCached(memo, sinkLog, name)
  /\ stack' = Advance
  /\ UNCHANGED <<doc, opts, rootName, awaiting, memo, started, nextId, rejected, topResult>>
  /\ UNCHANGED <<commentVars, engineVars, formatVars>>

\* on$Ref does not find the name and calls jsonSchema2TsStr on the
\* referenced schema, which enters its own parseSchema traversal
OnRefMiss ==
  /\ stack # <<>> /\ Current.pending # <<>>
  /\ opts.sink
  /\ Len(stack) < MaxStack
  /\ LET ref == Current.pending[1]
         name == getRefName(ref)
     IN /\ name \notin DOMAIN memo
        /\ \E parsed \in { parseSchema(findByRef(ref, doc), doc, CollectorConfig(opts),
                                         MaxInline) } :
             stack' = Append(Advance, Frame(nextId, name, parsed))
        /\ started' = Append(started, name)
  /\ nextId' = nextId + 1
  /\ UNCHANGED <<doc, opts, rootName, awaiting, memo, sinkLog, rejected, topResult>>
  /\ UNCHANGED <<commentVars, engineVars, formatVars>>

\* the same with the call stack exhausted: the call throws a RangeError
\* inside on$Ref, whose promise rejects unobserved; the traversal goes on
OnRefStackExhausted ==
  /\ stack # <<>> /\ Current.pending # <<>>
  /\ opts.sink
  /\ Len(stack) = MaxStack
  /\ getRefName(Current.pending[1]) \notin DOMAIN memo
  /\ stack' = Advance
  /\ rejected' = rejected \cup {nextId}
  /\ nextId' = nextId + 1
  /\ UNCHANGED <<doc, opts, rootName, awaiting, memo, sinkLog, started, topResult>>
  /\ UNCHANGED <<commentVars, engineVars, formatVars>>

\* parseSchema has returned: convertToType calls format() and the call is
\* suspended at the await; control returns to the caller's traversal
FormatCalled ==
  /\ stack # <<>> /\ Current.pending = <<>> /\ ~Current.overflow
  /\ awaiting' = awaiting \cup
       { [id |-> Current.id, name |-> Current.name,
          source |-> FormatSource(Current.tsStr)] }
  /\ stack' = SubSeq(stack, 1, Len(stack) - 1)
  /\ UNCHANGED <<doc, opts, rootName, memo, sinkLog, started, nextId, rejected, topResult>>
  /\ UNCHANGED <<commentVars, engineVars, formatVars>>

\* parseSchema has ended in a RangeError (an endless deep expansion): the
\* call's promise rejects without format() being called
ParseOverflows ==
  /\ stack # <<>> /\ Current.pending = <<>> /\ Current.overflow
  /\ IF Current.id = Top
       THEN topResult' = [kind |-> "thrown", error |-> "RangeError"] /\ UNCHANGED rejected
       ELSE rejected' = rejected \cup {Current.id} /\ UNCHANGED topResult
  /\ stack' = SubSeq(stack, 1, Len(stack) - 1)
  /\ UNCHANGED <<doc, opts, rootName, awaiting, memo, sinkLog, started, nextId>>
  /\ UNCHANGED <<commentVars, engineVars, formatVars>>

\* format() settles for one suspended call, which runs to its end: the
\* top-level call hands its result to the caller; a nested call returns to
\* on$Ref, which stores the result and tells the sink
FormatSettles(call, outcome) ==
  /\ stack = <<>>
  /\ call \in awaiting
  /\ awaiting' = awaiting \ {call}
  /\ LET converted == ConvertSettles(outcome, CollectorConfig(opts))
     IN IF converted.kind = "thrown"
          THEN /\ IF call.id = Top
                    THEN topResult' = converted /\ UNCHANGED rejected
                    ELSE rejected' = rejected \cup {call.id} /\ UNCHANGED topResult
               /\ UNCHANGED <<memo, sinkLog>>
          ELSE LET result == Declaration(call.name, converted.text, opts)
               IN IF call.id = Top
                    THEN /\ topResult' = [kind |-> "returned", text |-> result]
                         /\ UNCHANGED <<memo, sinkLog, rejected>>
                    ELSE LET after == OnRefResume(memo, sinkLog, call.name, result)
                         IN /\ memo' = after.map
                            /\ sinkLog' = after.log
                            /\ UNCHANGED <<topResult, rejected>>
  /\ UNCHANGED <<doc, opts, rootName, stack, started, nextId>>
  /\ UNCHANGED <<commentVars, engineVars, formatVars>>

Next ==
  \/ Request
  \/ OnRefNoSink
  \/ OnRefHit
  \/ OnRefMiss
  \/ OnRefStackExhausted
  \/ FormatCalled
  \/ ParseOverflows
  \/ \E call \in awaiting : \E outcome \in FormatOutcomes(call.source) :
       FormatSettles(call, outcome)

Init == InitCollector

Spec == Init /\ [][Next]_vars

Count(seq, x) == Cardinality({ i \in 1..Len(seq) : seq[i] = x })

-----------------------------------------------------------------------------
(* C1 *)

ContainsToken(text, tok) == \E i \in 1..Len(text) : text[i] = tok

\* the map the caller passed was empty: every entry was stored by this request
FreshMap == \A n \in DOMAIN memo : Count(started, n) > 0

\* C1: on the document where A references B and B references A, the
\* request for A with deep set and a sink terminates (no call ends in a
\* RangeError), starts one declaration for B and none for A besides the
\* top-level one, and B's traversal returns with its property rendered as
\* the display name A.
C1_MutualReferenceExpandsOnce ==
  (doc = MutualDoc /\ Deep(opts) /\ opts.sink /\ FreshMap) =>
    /\ rejected = {} /\ topResult.kind # "thrown"
    /\ Count(started, "A") = 0 /\ Count(started, "B") <= 1
    /\ \A i \in 1..Len(stack) :
         stack[i].name = "B" =>
           ~stack[i].overflow /\ ContainsToken(stack[i].tsStr, "A")

-----------------------------------------------------------------------------
(* C2 *)

\* C2: within one request at most one expansion of each reference name is
\* ever started.
C2_AtMostOneExpansionPerName ==
  FreshMap => \A n \in Names : Count(started, n) <= 1

-----------------------------------------------------------------------------
(* C3 *)

\* C3: the expansions of one request run one after the other: at no time
\* are two of them suspended at the await of format().
C3_OneSuspendedAtATime == Cardinality(awaiting) <= 1

-----------------------------------------------------------------------------
(* C4 *)

\* the sink is called while parseSchema is running: a memo hit
SinkCalledOnHit == stack # <<>> /\ sinkLog' # sinkLog

\* C4: whenever the sink is called with (N, text) the memo maps N to that
\* text; on a hit the text is the cached one, the memo is left as it is
\* and no expansion is started.
C4_StoreBeforeNotify ==
  /\ [](\A i \in 1..Len(sinkLog) : sinkLog[i].held = sinkLog[i].text)
  /\ [][SinkCalledOnHit =>
          /\ started' = started /\ memo' = memo /\ nextId' = nextId
          /\ sinkLog' = Append(sinkLog,
                               [name |-> getRefName(Current.pending[1]),
                                text |-> memo[getRefName(Current.pending[1])],
                                held |-> memo[getRefName(Current.pending[1])]])]_vars

\* the sink has been called on a hit (B, with the text the caller's map
\* held) and after a miss (another name, whose stored text it was given)
C4_Witness ==
  \E i, j \in 1..Len(sinkLog) :
    /\ sinkLog[i].name = "B" /\ sinkLog[i].text = CachedB
    /\ sinkLog[j].name # "B" /\ sinkLog[j].name \in DOMAIN memo
    /\ memo[sinkLog[j].name] = sinkLog[j].text

-----------------------------------------------------------------------------
(* C10 *)

\* C10: once the top-level call has handed its result to the caller no
\* nested expansion of the request is still to store its declaration and
\* tell the sink.
C10_NothingPendingAfterResult ==
  (FreshMap /\ topResult.kind = "returned") => awaiting = {}

====
